---- MODULE Spec2Model ----
(***************************************************************************)
(* The video-selection service (src/video-selection/main.py): GET /search  *)
(* searches for a pool of candidate videos, fetches their details in       *)
(* batches, scores every detailed video with calculate_score, sorts by the *)
(* score (descending) and returns the first max_results items.             *)
(*                                                                         *)
(* One run of the handler is followed through its outbound calls: the      *)
(* request arrives (Request), the search call and every details call       *)
(* return (SearchReturns, DetailsReturns) or fail (UpstreamFails).  The    *)
(* responses of the two capabilities are inputs.  The variables from pc to *)
(* error are the frame of the invocation that is running; the frames of    *)
(* the other invocations in flight are kept in suspended.                  *)
(*                                                                         *)
(* The sibling services follow, each with its own variables and its own    *)
(* specification: get_channel_videos_for_date (youtube-urls-mcp),          *)
(* generate_summary (final-summary-mcp), get_playlist_videos               *)
(* (playlist-videos-mcp) and load_youbuddy_agent (YouBuddy).               *)
(*                                                                         *)
(* Modelling conventions                                                   *)
(*  - Python's None is the empty tuple, a present value x is <<x>>.        *)
(*  - A dict is a function on the set of its keys.                         *)
(*  - A publishedAt string is the tuple of its fields                      *)
(*    <<year, month, day, hour, minute, second, suffix>>, the suffix being *)
(*    the text after the seconds ("Z", "+00:00", "+01:00", ...).           *)
(*  - A float is the exact rational [num, den] it approximates, kept in    *)
(*    lowest terms; arithmetic is exact.                                   *)
(***************************************************************************)
EXTENDS Integers, Sequences, FiniteSets, TLC

VARIABLES
    YOUTUBE_API_KEY,    \* module level: None or <<key>>, read at import
    pc,                 \* "idle", "search", "details" or "done"
    params,             \* the query parameters of the request
    query,              \* local: the validated query
    max_results,        \* local: the validated result count
    calls,              \* the outbound calls issued so far, in order
    replies,            \* the details responses received so far, in order
    search_response,    \* None or <<the search response>>
    video_ids,          \* local: the candidate pool
    i,                  \* local: the start of the batch in flight
    detailed_videos,    \* local: the detail items received so far
    videos_with_scores, \* local: the scored records, sorted at the end
    status,             \* 0 while running, else the HTTP status returned
    results,            \* the response body of a 200
    error,              \* None or <<the exception caught at line 205 or 209>>
    current,            \* the invocation that is running
    suspended,          \* the frames of the other invocations in flight
    score_args,         \* the arguments of a direct call of calculate_score
    score_value,        \* None or <<what that call returned>>
    \* src/youtube-urls-mcp/main.py, get_channel_videos_for_date
    urls_pc,            \* "idle", "page", "returned" or "raised"
    target_date,        \* local: None or <<the date parsed at line 95>>
    next_page_token,    \* local: None or <<the token of the last page>>
    video_urls,         \* local: the URLs collected so far
    page_calls,         \* the search calls issued so far, in order
    pages,              \* the search pages received so far, in order
    raised,             \* None or <<the exception the function raised>>
    \* src/final-summary-mcp/main.py, generate_summary
    GEMINI_API_KEY,     \* os.environ: None or <<value>>
    gemini,             \* how the generative service answers at present
    summary_pc,         \* "idle" or "done"
    input_data,         \* the posted key points
    model_calls,        \* the prompts sent to generate_content, in order
    summary_status,     \* 0 while running, else the HTTP status returned
    summary_body,       \* the response body of a 200
    summary_error,      \* None or <<the exception caught at line 98>>
    \* src/playlist-videos-mcp/main.py, get_playlist_videos
    playlist_pc,        \* "idle" or "done"
    playlist,           \* how the Playlist object of the request behaves
    playlist_status,    \* 0 while running, else the HTTP status returned
    playlist_body,      \* the response body of a 200
    playlist_error,     \* the exceptions raised in the handler, in order
    \* src/YouBuddy/src/agent.py, load_youbuddy_agent
    agent_pc,           \* "idle", "tools", "agent", "returned" or "raised"
    GOOGLE_API_KEY,     \* os.environ: None or <<value>>
    exit_stack,         \* None or <<the AsyncExitStack of line 135>>
    server,             \* local of load_mcp_tools: the server being tried
    tried,              \* the servers tried so far, in order
    all_tools,          \* local of load_mcp_tools: the tools loaded so far
    agent_result,       \* None or <<the tuple returned at line 176>>
    agent_raised        \* the exceptions raised in the function, in order

vars == <<YOUTUBE_API_KEY, pc, params, query, max_results, calls, replies,
          search_response, video_ids, i, detailed_videos,
          videos_with_scores, status, results, error, current, suspended,
          score_args, score_value, urls_pc, target_date, next_page_token,
          video_urls, page_calls, pages, raised, GEMINI_API_KEY, gemini,
          summary_pc, input_data, model_calls, summary_status, summary_body,
          summary_error, playlist_pc, playlist, playlist_status,
          playlist_body, playlist_error, agent_pc, GOOGLE_API_KEY,
          exit_stack, server, tried, all_tools, agent_result, agent_raised>>

\* the variables of generate_summary
summary_vars == <<GEMINI_API_KEY, gemini, summary_pc, input_data, model_calls,
                  summary_status, summary_body, summary_error>>

\* the variables of get_playlist_videos
playlist_vars == <<playlist_pc, playlist, playlist_status, playlist_body,
                   playlist_error>>

\* the variables of load_youbuddy_agent
agent_vars == <<agent_pc, GOOGLE_API_KEY, exit_stack, server, tried,
                all_tools, agent_result, agent_raised>>

\* the variables of get_channel_videos_for_date
urls_vars == <<urls_pc, target_date, next_page_token, video_urls, page_calls,
               pages, raised>>

\* the variables of the video-selection service
search_vars == <<YOUTUBE_API_KEY, pc, params, query, max_results, calls,
                 replies, search_response, video_ids, i, detailed_videos,
                 videos_with_scores, status, results, error, current,
                 suspended, score_args, score_value>>

-----------------------------------------------------------------------------
(* Values *)

None == <<>>

Some(x) == <<x>>

\* dict.get(key): the value, or None when the key is absent
Get(dict, key) == IF key \in DOMAIN dict THEN Some(dict[key]) ELSE None

\* Python truth of an optional string: None and "" are false
TruthyStr(o) == o # None /\ o[1] # ""

\* Python truth of an optional int: None and 0 are false
TruthyInt(o) == o # None /\ o[1] # 0

Min(a, b) == IF a <= b THEN a ELSE b

\* a Python list holds its elements: they are computed once, when the list is
\* built, not on every access
List(f) == SubSeq(f, 1, Len(f))

-----------------------------------------------------------------------------
(* Exact rational arithmetic standing for the float arithmetic of the code *)

RECURSIVE GCD(_, _)
GCD(a, b) == IF b = 0 THEN a ELSE GCD(b, a % b)

Abs(a) == IF a < 0 THEN -a ELSE a

\* n/d with the common factor g taken out, the denominator made positive
Reduced(n, d, g) ==
    IF d < 0 THEN [num |-> (-n) \div g, den |-> (-d) \div g]
    ELSE [num |-> n \div g, den |-> d \div g]

\* the rational n/d (d # 0) in lowest terms with a positive denominator
Rat(n, d) == Reduced(n, d, GCD(Abs(n), Abs(d)))

RatZero == Rat(0, 1)

\* a * b, the common factors taken out before multiplying
RatMulReduced(x, y) == [num |-> x.num * y.num, den |-> x.den * y.den]

RatMul(a, b) == RatMulReduced(Rat(a.num, b.den), Rat(b.num, a.den))

\* a / k for an integer k > 0
RatDivReduced(x, den) == [num |-> x.num, den |-> x.den * den]

RatDivInt(a, k) == RatDivReduced(Rat(a.num, k), a.den)

\* the least common multiple of two positive integers
LCMOf(x, y, g) == (x \div g) * y

LCM(x, y) == LCMOf(x, y, GCD(x, y))

RatAddOver(a, b, l) ==
    Rat(a.num * (l \div a.den) + b.num * (l \div b.den), l)

RatAdd(a, b) == RatAddOver(a, b, LCM(a.den, b.den))

RatLeqOver(a, b, l) == a.num * (l \div a.den) <= b.num * (l \div b.den)

RatLeq(a, b) == RatLeqOver(a, b, LCM(a.den, b.den))

-----------------------------------------------------------------------------
(* Configuration, src/video-selection/main.py:23-33 *)

RATIO_WEIGHT == Rat(6, 10)

\* a fault of line 26: the recency has no weight
RECENCY_WEIGHT_ZERO == RatZero

RECENCY_WEIGHT == Rat(4, 10)

\* 1e10, as the two factors 1e5 * 1e5 (each within TLC's integer range)
RECENCY_SCALE_FACTOR == <<100000, 100000>>

INITIAL_FETCH_COUNT == 50

\* the ratio given to a video with likes but no views
DEFAULT_RATIO == Rat(1, 100)

-----------------------------------------------------------------------------
(* datetime.fromisoformat(s.replace('Z', '+00:00')).timestamp() *)

\* the empty string: a publishedAt without any field
EmptyDate == <<>>

\* str.replace('Z', '+00:00') on the suffix of the string
ReplaceZ(suffix) == IF suffix = "Z" THEN "+00:00" ELSE suffix

\* the UTC offsets fromisoformat reads, in seconds; any other suffix is a
\* ValueError (a string without offset is naive and is not modelled)
UTCOffsets ==
    [x \in {"+00:00", "+01:00", "-05:00"} |->
        CASE x = "+00:00" -> 0
          [] x = "+01:00" -> 3600
          [] x = "-05:00" -> -18000]

IsLeap(y) == y % 4 = 0 /\ (y % 100 # 0 \/ y % 400 = 0)

DaysInMonth(y, m) ==
    IF m = 2 THEN (IF IsLeap(y) THEN 29 ELSE 28)
    ELSE IF m \in {4, 6, 9, 11} THEN 30 ELSE 31

\* days of the year before the first day of month m
DaysBeforeMonth(y, m) ==
    <<0, 31, 59, 90, 120, 151, 181, 212, 243, 273, 304, 334>>[m]
        + (IF m > 2 /\ IsLeap(y) THEN 1 ELSE 0)

\* days from 0001-01-01 to the first day of year y
DaysBeforeYear(y) ==
    LET p == y - 1 IN p * 365 + p \div 4 - p \div 100 + p \div 400

Ordinal(y, m, d) == DaysBeforeYear(y) + DaysBeforeMonth(y, m) + d

\* fromisoformat: TRUE when the fields and the offset are accepted
ParsesIso(s) ==
    /\ s # EmptyDate
    /\ s[1] \in 1..9999
    /\ s[2] \in 1..12
    /\ s[3] \in 1..DaysInMonth(s[1], s[2])
    /\ s[4] \in 0..23
    /\ s[5] \in 0..59
    /\ s[6] \in 0..59
    /\ s[7] \in DOMAIN UTCOffsets

\* datetime.timestamp() of an aware datetime: seconds since 1970-01-01 UTC
Timestamp(s) ==
    (Ordinal(s[1], s[2], s[3]) - Ordinal(1970, 1, 1)) * 86400
        + s[4] * 3600 + s[5] * 60 + s[6] - UTCOffsets[s[7]]

-----------------------------------------------------------------------------
(* calculate_score, src/video-selection/main.py:81-108 *)

\* a fault of line 89: the default ratio is given for zero views only
ratio_score_zero_views(view_count, like_count) ==
    IF TruthyInt(view_count) /\ TruthyInt(like_count) /\ view_count[1] > 0
    THEN Rat(like_count[1], view_count[1])
    ELSE IF /\ TruthyInt(like_count) /\ like_count[1] > 0
            /\ view_count = Some(0)
         THEN DEFAULT_RATIO
         ELSE RatZero

\* the ratio component, lines 84-90
ratio_score(view_count, like_count) ==
    IF TruthyInt(view_count) /\ TruthyInt(like_count) /\ view_count[1] > 0
    THEN Rat(like_count[1], view_count[1])
    ELSE IF /\ TruthyInt(like_count) /\ like_count[1] > 0
            /\ (view_count = None \/ view_count[1] = 0)
         THEN DEFAULT_RATIO
         ELSE RatZero

\* the recency component, lines 93-103
recency_score(published_at_str) ==
    LET s == IF published_at_str = EmptyDate THEN EmptyDate
             ELSE [published_at_str EXCEPT ![7] = ReplaceZ(@)]
    IN  IF ParsesIso(s)
        THEN RatDivInt(RatDivInt(Rat(Timestamp(s), 1),
                                 RECENCY_SCALE_FACTOR[1]),
                       RECENCY_SCALE_FACTOR[2])
        ELSE RatZero

\* a fault of line 85: likes are divided by a view count of 0, which has no
\* quotient (ZeroDivisionError)
calculate_score_unguarded(view_count, like_count, published_at_str) ==
    IF TruthyInt(like_count) /\ view_count = Some(0)
    THEN [num |-> like_count[1], den |-> 0]
    ELSE RatAdd(RatMul(RATIO_WEIGHT, ratio_score(view_count, like_count)),
                RatMul(RECENCY_WEIGHT, recency_score(published_at_str)))

calculate_score(view_count, like_count, published_at_str) ==
    RatAdd(RatMul(RATIO_WEIGHT, ratio_score(view_count, like_count)),
           RatMul(RECENCY_WEIGHT, recency_score(published_at_str)))

-----------------------------------------------------------------------------
(* The steps of search_videos_custom_score, lines 112-213 *)

\* int(s) for the strings int accepts; any other string is a ValueError
IntOf ==
    [x \in {"0", "5", "50", "100", "1000"} |->
        CASE x = "0" -> 0
          [] x = "5" -> 5
          [] x = "50" -> 50
          [] x = "100" -> 100
          [] x = "1000" -> 1000]

\* a fault of lines 172-173: an absent count becomes 0
ToIntOrZero(count_str) ==
    IF TruthyStr(count_str) THEN Some(IntOf[count_str[1]]) ELSE Some(0)

\* lines 172-173: int(s) if s else None
ToInt(count_str) ==
    IF TruthyStr(count_str) THEN Some(IntOf[count_str[1]]) ELSE None

\* the parameter declarations of lines 113-116: TRUE when FastAPI accepts
\* the request (query is required, max_results is 1..INITIAL_FETCH_COUNT)
Validates(p) ==
    /\ "query" \in DOMAIN p
    /\ "max_results" \in DOMAIN p =>
           (p["max_results"] >= 1 /\ p["max_results"] <= INITIAL_FETCH_COUNT)

\* line 115: the default of max_results is 10
MaxResultsOf(p) ==
    IF "max_results" \in DOMAIN p THEN p["max_results"] ELSE 10

\* response.get("items", [])
ItemsOf(response) ==
    IF "items" \in DOMAIN response THEN response["items"] ELSE <<>>

\* line 138: the item is a video
IsVideoItem(item) ==
    Get(IF "id" \in DOMAIN item THEN item["id"] ELSE <<>>, "kind")
        = Some("youtube#video")

\* a fault of line 138: the kind of the item is not looked at
CollectAnyKind(items) ==
    [k \in DOMAIN items |->
        IF "videoId" \in DOMAIN items[k]["id"]
        THEN items[k]["id"]["videoId"]
        ELSE items[k]["id"]["channelId"]]

\* lines 136-139: the videoId of every search item whose kind is a video
VideoIdsOf(videos) ==
    List([k \in DOMAIN videos |-> videos[k]["id"]["videoId"]])

CollectVideoIds(items) == VideoIdsOf(SelectSeq(items, IsVideoItem))

\* a fault of line 151: the slice is not taken
BatchIdsUnsliced(ids, k) == ids

\* line 151: video_ids[k:k+50]
BatchIds(ids, k) == SubSeq(ids, k + 1, Min(k + 50, Len(ids)))

\* lines 127-133
SearchCall(q) ==
    [api |-> "search", q |-> q, type |-> "video",
     maxResults |-> INITIAL_FETCH_COUNT]

\* lines 152-155
DetailsCall(batch_ids) == [api |-> "videos", id |-> batch_ids]

\* a fault of lines 172-173: int() is called on an absent count as well
ScoringRaisesOnAbsent(video_data) ==
    \E k \in {"viewCount", "likeCount"} :
        LET c == Get(video_data["statistics"], k)
        IN  ~TruthyStr(c) \/ c[1] \notin DOMAIN IntOf

\* lines 167-173 raise ValueError for a count that is no integer
ScoringRaises(video_data) ==
    \E k \in {"viewCount", "likeCount"} :
        LET c == Get(video_data["statistics"], k)
        IN  TruthyStr(c) /\ c[1] \notin DOMAIN IntOf

\* a fault of line 175: a video without viewCount is skipped as well
HasPublishedAtAndViews(video_data) ==
    /\ Get(video_data["snippet"], "publishedAt") \notin {None, Some(EmptyDate)}
    /\ Get(video_data["statistics"], "viewCount") # None

\* line 175: if published_at (None and the empty string are false)
HasPublishedAt(video_data) ==
    Get(video_data["snippet"], "publishedAt") \notin {None, Some(EmptyDate)}

\* lines 163-188: the record appended for a detail item with publishedAt
ScoredRecord(video_data) ==
    LET video_id     == video_data["id"]
        view_count   == ToInt(Get(video_data["statistics"], "viewCount"))
        like_count   == ToInt(Get(video_data["statistics"], "likeCount"))
        published_at == video_data["snippet"]["publishedAt"]
    IN  [id          |-> video_id,
         url         |-> "https://www.youtube.com/watch?v=" \o video_id,
         publishedAt |-> published_at,
         viewCount   |-> view_count,
         likeCount   |-> like_count,
         customScore |-> calculate_score(view_count, like_count,
                                         published_at)]

RecordsOf(kept) == List([k \in DOMAIN kept |-> ScoredRecord(kept[k])])

\* a fault of the join: a candidate without details is scored as zero
ZeroRecord(v) ==
    [id          |-> v,
     url         |-> "https://www.youtube.com/watch?v=" \o v,
     publishedAt |-> <<1970, 1, 1, 0, 0, 0, "Z">>,
     viewCount   |-> None,
     likeCount   |-> None,
     customScore |-> RatZero]

ScoreAllOrZero(detailed) ==
    LET Missing(v) == \A k \in DOMAIN detailed : detailed[k]["id"] # v
        missing    == SelectSeq(video_ids, Missing)
    IN  RecordsOf(SelectSeq(detailed, HasPublishedAt))
            \o [k \in DOMAIN missing |-> ZeroRecord(missing[k])]

\* lines 162-190: the scoring loop over detailed_videos
ScoreAll(detailed) == RecordsOf(SelectSeq(detailed, HasPublishedAt))

\* list.sort(key=customScore, reverse=True) is stable: the k-th record goes
\* after every record of a greater score and after the records of an equal
\* score that stand before it
Rank(videos, k) ==
    1 + Cardinality({j \in DOMAIN videos :
            IF j < k
            THEN RatLeq(videos[k].customScore, videos[j].customScore)
            ELSE ~RatLeq(videos[j].customScore, videos[k].customScore)})

Ranks(videos) == List([k \in DOMAIN videos |-> Rank(videos, k)])

Ranked(videos, ranks) ==
    List([p \in DOMAIN videos |->
            videos[CHOOSE k \in DOMAIN videos : ranks[k] = p]])

\* a fault of line 195: the sort is left out
SortByScoreSkipped(videos) == videos

\* a fault of line 195: only the first invocation of the process sorts
SortByScoreOnce(videos) ==
    IF current = 1 THEN Ranked(videos, Ranks(videos)) ELSE videos

\* line 195
SortByScore(videos) == Ranked(videos, Ranks(videos))

\* a fault of line 198: the slice keeps one video too many
TopVideosOneMore(videos, n) == SubSeq(videos, 1, Min(n + 1, Len(videos)))

\* line 198: videos_with_scores[:max_results]
TopVideos(videos, n) == SubSeq(videos, 1, Min(n, Len(videos)))

\* line 202: the response model keeps its own fields of the record
VideoItem(video) ==
    [id          |-> video.id,
     url         |-> video.url,
     publishedAt |-> video.publishedAt,
     viewCount   |-> video.viewCount,
     likeCount   |-> video.likeCount]

FormatResults(top) == List([k \in DOMAIN top |-> VideoItem(top[k])])

-----------------------------------------------------------------------------
(* The inputs: requests and the responses of the two capabilities *)

\* the longest details response
MaxDetails == 3

SeqsUpTo(S, n) == UNION {[1..k -> S] : k \in 0..n}

IDs == {"A", "B", "C"}

\* the query parameters of a request (an absent key is a missing parameter)
Requests ==
    { [query |-> "cats", max_results |-> 1],
      [query |-> "cats", max_results |-> 2],
      [query |-> "cats"],
      [query |-> ""],
      [max_results |-> 2],
      [query |-> "cats", max_results |-> 0],
      [query |-> "cats", max_results |-> 51] }

Video(v) == [id |-> [kind |-> "youtube#video", videoId |-> v]]

Channel == [id |-> [kind |-> "youtube#channel", channelId |-> "UC1"]]

\* search responses: without items, without a video, and with the pools
\* A; A,B (around a channel); B,A; A,B,C
SearchResponses ==
    { <<>>,
      [items |-> <<>>],
      [items |-> <<Channel>>],
      [items |-> <<Video("A")>>],
      [items |-> <<Video("B"), Video("A")>>],
      [items |-> <<Video("A"), Channel, Video("B")>>],
      [items |-> <<Video("A"), Video("B"), Video("C")>>] }

\* publishedAt strings: 2024-01-01T00:00:00Z, 2025-01-01T00:00:00Z,
\* 2024-01-01T01:00:00+01:00 (the instant of the first) and
\* 2024-13-01T00:00:00Z (no date)
Jan2024 == <<2024, 1, 1, 0, 0, 0, "Z">>

Jan2025 == <<2025, 1, 1, 0, 0, 0, "Z">>

Jan2024Plus1 == <<2024, 1, 1, 1, 0, 0, "+01:00">>

NoDate == <<2024, 13, 1, 0, 0, 0, "Z">>

LeapDay == <<2024, 2, 29, 12, 30, 0, "-05:00">>

NotLeapDay == <<2023, 2, 29, 0, 0, 0, "Z">>

BadSuffix == <<2024, 1, 1, 0, 0, 0, " UTC">>

Item(v, snippet, statistics) ==
    [id |-> v, snippet |-> snippet, statistics |-> statistics]

\* the items a details response may carry: the two videos of the spec's
\* scenario, videos tying with them, videos with partial data, a video
\* without publishedAt, a video whose publishedAt is the empty string and a
\* video whose viewCount is no integer
DetailItems ==
    { Item("A", [publishedAt |-> Jan2024],
                [viewCount |-> "1000", likeCount |-> "100"]),
      Item("B", [publishedAt |-> Jan2025],
                [viewCount |-> "100", likeCount |-> "50"]),
      Item("B", [publishedAt |-> Jan2024Plus1],
                [viewCount |-> "1000", likeCount |-> "100"]),
      Item("A", [publishedAt |-> Jan2025],
                [viewCount |-> "0", likeCount |-> "0"]),
      Item("C", [publishedAt |-> Jan2024Plus1], <<>>),
      Item("C", [publishedAt |-> NoDate], [likeCount |-> "5"]),
      Item("B", <<>>, [viewCount |-> "100", likeCount |-> "50"]),
      Item("C", [publishedAt |-> EmptyDate],
                [viewCount |-> "100", likeCount |-> "50"]),
      Item("A", [publishedAt |-> Jan2024],
                [viewCount |-> "n/a", likeCount |-> "5"]) }

DetailsResponses ==
    { [items |-> s] : s \in SeqsUpTo(DetailItems, MaxDetails) }

\* the arguments of the direct calls of calculate_score
ScoreArgs ==
    { <<v, l, d>> :
        v \in {None, Some(0), Some(100), Some(1000)},
        l \in {None, Some(0), Some(5), Some(50), Some(100)},
        d \in {Jan2024, Jan2025, Jan2024Plus1, LeapDay, NoDate, NotLeapDay,
               BadSuffix, EmptyDate} }

\* a search response of n videos v1, v2, ...
LongSearchResponse(n) ==
    [items |-> [k \in 1..n |-> Video("v" \o ToString(k))]]

\* the pool lengths around one, two and three batches
PoolLengths == {1, 49, 50, 51, 99, 100, 101}

\* the detail item of the k-th identifier of a batch
EchoItem(v, k) ==
    Item(v, [publishedAt |-> IF k % 2 = 0 THEN Jan2024 ELSE Jan2025],
            IF k % 3 = 0 THEN <<>>
            ELSE [viewCount |-> "100", likeCount |-> "50"])

\* the details responses to a batch: every identifier in request order, the
\* first identifier only, none, or the first identifier with a viewCount
\* that is no integer
EchoResponses(batch_ids) ==
    { [items |-> [k \in 1..Len(batch_ids) |-> EchoItem(batch_ids[k], k)]],
      [items |-> <<EchoItem(batch_ids[1], 1)>>],
      [items |-> <<>>],
      [items |-> <<Item(batch_ids[1], [publishedAt |-> Jan2024],
                        [viewCount |-> "n/a", likeCount |-> "5"])>>] }

\* the statuses of an HttpError of the search or details capability
UpstreamStatuses == {403, 503}

-----------------------------------------------------------------------------
(* The handler *)

\* get_channel_videos_for_date has not been called
NoUrlsCall ==
    /\ urls_pc = "idle"
    /\ target_date = None
    /\ next_page_token = None
    /\ video_urls = <<>>
    /\ page_calls = <<>>
    /\ pages = <<>>
    /\ raised = None

\* generate_summary has not been called
NoSummaryCall ==
    /\ GEMINI_API_KEY = None
    /\ gemini = <<>>
    /\ summary_pc = "idle"
    /\ input_data = <<>>
    /\ model_calls = <<>>
    /\ summary_status = 0
    /\ summary_body = <<>>
    /\ summary_error = None

\* get_playlist_videos has not been called
NoPlaylistCall ==
    /\ playlist_pc = "idle"
    /\ playlist = <<>>
    /\ playlist_status = 0
    /\ playlist_body = <<>>
    /\ playlist_error = <<>>

\* load_youbuddy_agent has not been called
NoAgentLoad ==
    /\ agent_pc = "idle"
    /\ GOOGLE_API_KEY = None
    /\ exit_stack = None
    /\ server = 0
    /\ tried = <<>>
    /\ all_tools = <<>>
    /\ agent_result = None
    /\ agent_raised = <<>>

Init ==
    /\ YOUTUBE_API_KEY \in {None, Some("key")}
    /\ pc = "idle"
    /\ params = <<>>
    /\ query = None
    /\ max_results = 0
    /\ calls = <<>>
    /\ replies = <<>>
    /\ search_response = None
    /\ video_ids = <<>>
    /\ i = 0
    /\ detailed_videos = <<>>
    /\ videos_with_scores = <<>>
    /\ status = 0
    /\ results = <<>>
    /\ error = None
    /\ current = 1
    /\ suspended = <<>>
    /\ score_args = <<>>
    /\ score_value = None
    /\ NoUrlsCall
    /\ NoSummaryCall
    /\ NoPlaylistCall
    /\ NoAgentLoad

\* the handler returns or raises: the response is sent
Respond(code, body) ==
    /\ pc' = "done"
    /\ status' = code
    /\ results' = body

\* lines 113-134: the request is validated by the framework, the client is
\* built (get_youtube_service, lines 70-77) and the search call is issued
Request(p, build_ok) ==
    /\ pc = "idle"
    /\ params' = p
    /\ UNCHANGED <<YOUTUBE_API_KEY, replies, search_response, video_ids, i,
                   detailed_videos, videos_with_scores, error, current,
                   suspended, score_args, score_value>>
    /\ UNCHANGED <<urls_vars, summary_vars, playlist_vars, agent_vars>>
    /\ IF ~Validates(p)
       THEN /\ Respond(422, <<>>)
            /\ UNCHANGED <<query, max_results, calls>>
       ELSE /\ query' = Some(p["query"])
            /\ max_results' = MaxResultsOf(p)
            /\ IF YOUTUBE_API_KEY = None \/ ~build_ok
               THEN /\ Respond(500, <<>>)
                    /\ UNCHANGED calls
               ELSE /\ calls' = Append(calls, SearchCall(p["query"]))
                    /\ pc' = "search"
                    /\ UNCHANGED <<status, results>>

\* lines 134-157: the search response arrives, the pool is collected and,
\* unless it is empty, the first details call is issued
SearchReturns(response) ==
    /\ pc = "search"
    /\ search_response' = Some(response)
    /\ video_ids' = CollectVideoIds(ItemsOf(response))
    /\ UNCHANGED <<YOUTUBE_API_KEY, params, query, max_results, replies, i,
                   detailed_videos, videos_with_scores, error, current,
                   suspended, score_args, score_value>>
    /\ UNCHANGED <<urls_vars, summary_vars, playlist_vars, agent_vars>>
    /\ IF video_ids' = <<>>
       THEN /\ Respond(200, <<>>)
            /\ UNCHANGED calls
       ELSE /\ calls' = Append(calls, DetailsCall(BatchIds(video_ids', 0)))
            /\ pc' = "details"
            /\ UNCHANGED <<status, results>>

\* the exceptions caught at lines 205 and 209
HttpError(code) == [type |-> "HttpError", status |-> code]

ValueError == [type |-> "ValueError"]

\* a fault of line 208: every HttpError is answered with status 500
UpstreamFailsInternal(code) ==
    /\ pc \in {"search", "details"}
    /\ error' = Some(HttpError(code))
    /\ Respond(500, <<>>)
    /\ UNCHANGED <<YOUTUBE_API_KEY, params, query, max_results, calls,
                   replies, search_response, video_ids, i, detailed_videos,
                   videos_with_scores, current, suspended, score_args,
                   score_value>>
    /\ UNCHANGED <<urls_vars, summary_vars, playlist_vars, agent_vars>>

\* lines 205-208: an HttpError of either call is passed on with its status
UpstreamFails(code) ==
    /\ pc \in {"search", "details"}
    /\ error' = Some(HttpError(code))
    /\ Respond(code, <<>>)
    /\ UNCHANGED <<YOUTUBE_API_KEY, params, query, max_results, calls,
                   replies, search_response, video_ids, i, detailed_videos,
                   videos_with_scores, current, suspended, score_args,
                   score_value>>
    /\ UNCHANGED <<urls_vars, summary_vars, playlist_vars, agent_vars>>

\* the detail items before the first one on which the scoring loop raises
RECURSIVE BeforeRaise(_)
BeforeRaise(detailed) ==
    IF detailed = <<>> \/ ScoringRaises(Head(detailed)) THEN <<>>
    ELSE <<Head(detailed)>> \o BeforeRaise(Tail(detailed))

\* lines 156-157 and 150: a details response arrives and the next batch is
\* requested; after the last batch, lines 159-213: score, sort, truncate
DetailsReturns(response) ==
    LET detailed == detailed_videos \o ItemsOf(response)
        scored == SortByScore(ScoreAll(detailed))
    IN  /\ pc = "details"
        /\ replies' = Append(replies, response)
        /\ detailed_videos' = detailed
        /\ UNCHANGED <<YOUTUBE_API_KEY, params, query, max_results,
                       search_response, video_ids, current, suspended,
                       score_args, score_value>>
        /\ UNCHANGED <<urls_vars, summary_vars, playlist_vars, agent_vars>>
        /\ IF i + 50 < Len(video_ids)
           THEN /\ i' = i + 50
                /\ calls' =
                       Append(calls, DetailsCall(BatchIds(video_ids, i + 50)))
                /\ UNCHANGED <<pc, videos_with_scores, status, results,
                               error>>
           ELSE /\ UNCHANGED <<i, calls>>
                /\ IF \E k \in DOMAIN detailed : ScoringRaises(detailed[k])
                   THEN /\ videos_with_scores' =
                               ScoreAll(BeforeRaise(detailed))
                        /\ error' = Some(ValueError)
                        /\ Respond(500, <<>>)
                   ELSE /\ videos_with_scores' = scored
                        /\ UNCHANGED error
                        /\ Respond(200, FormatResults(
                               TopVideos(scored, max_results)))

Next ==
    \/ \E p \in Requests, build_ok \in BOOLEAN : Request(p, build_ok)
    \/ \E response \in SearchResponses : SearchReturns(response)
    \/ /\ pc = "details"
       /\ \E response \in DetailsResponses : DetailsReturns(response)
    \/ \E code \in UpstreamStatuses : UpstreamFails(code)

Spec == Init /\ [][Next]_vars

-----------------------------------------------------------------------------
(* calculate_score called on its own *)

InitScore ==
    /\ YOUTUBE_API_KEY \in {None, Some("key")}
    /\ pc = "call"
    /\ params = <<>>
    /\ query = None
    /\ max_results = 0
    /\ calls = <<>>
    /\ replies = <<>>
    /\ search_response = None
    /\ video_ids = <<>>
    /\ i = 0
    /\ detailed_videos = <<>>
    /\ videos_with_scores = <<>>
    /\ status = 0
    /\ results = <<>>
    /\ error = None
    /\ current = 1
    /\ suspended = <<>>
    /\ score_args \in ScoreArgs
    /\ score_value = None
    /\ NoUrlsCall
    /\ NoSummaryCall
    /\ NoPlaylistCall
    /\ NoAgentLoad

CalculateScore ==
    /\ pc = "call"
    /\ score_value' =
           Some(calculate_score(score_args[1], score_args[2], score_args[3]))
    /\ pc' = "returned"
    /\ UNCHANGED <<YOUTUBE_API_KEY, params, query, max_results, calls,
                   replies, search_response, video_ids, i, detailed_videos,
                   videos_with_scores, status, results, error, current,
                   suspended, score_args>>
    /\ UNCHANGED <<urls_vars, summary_vars, playlist_vars, agent_vars>>

NextScore == CalculateScore

SpecScore == InitScore /\ [][NextScore]_vars

-----------------------------------------------------------------------------
(* GET /search on pools of more than one batch *)

NextBatch ==
    \/ \E p \in Requests, build_ok \in BOOLEAN : Request(p, build_ok)
    \/ \E n \in PoolLengths : SearchReturns(LongSearchResponse(n))
    \/ /\ pc = "details"
       /\ \E response \in EchoResponses(calls[Len(calls)].id) :
              DetailsReturns(response)
    \/ \E code \in UpstreamStatuses : UpstreamFails(code)

SpecBatch == Init /\ [][NextBatch]_vars

-----------------------------------------------------------------------------
(* GET /search on videos without views and likes *)

\* detail items with viewCount 0 and likeCount 0: three instants, one of
\* them written with two offsets
ZeroItems ==
    { Item("A", [publishedAt |-> Jan2024],
                [viewCount |-> "0", likeCount |-> "0"]),
      Item("B", [publishedAt |-> Jan2025],
                [viewCount |-> "0", likeCount |-> "0"]),
      Item("C", [publishedAt |-> LeapDay],
                [viewCount |-> "0", likeCount |-> "0"]),
      Item("B", [publishedAt |-> Jan2024Plus1],
                [viewCount |-> "0", likeCount |-> "0"]) }

ZeroResponses == { [items |-> s] : s \in SeqsUpTo(ZeroItems, MaxDetails) }

NextZero ==
    \/ \E p \in Requests, build_ok \in BOOLEAN : Request(p, build_ok)
    \/ \E response \in SearchResponses : SearchReturns(response)
    \/ /\ pc = "details"
       /\ \E response \in ZeroResponses : DetailsReturns(response)
    \/ \E code \in UpstreamStatuses : UpstreamFails(code)

SpecZero == Init /\ [][NextZero]_vars

-----------------------------------------------------------------------------
(* Several invocations of GET /search in flight: the hosting framework runs *)
(* one handler per request and may leave a handler at an outbound call to   *)
(* run another one.  Every invocation has its own frame of local variables; *)
(* YOUTUBE_API_KEY and the constants are module level.                      *)

Invocations == {1, 2}

\* the longest details response of the concurrent runs
MaxConcDetails == 2

\* the local variables of the invocation that is running
Frame ==
    [pc |-> pc, params |-> params, query |-> query,
     max_results |-> max_results, calls |-> calls, replies |-> replies,
     search_response |-> search_response, video_ids |-> video_ids, i |-> i,
     detailed_videos |-> detailed_videos,
     videos_with_scores |-> videos_with_scores, status |-> status,
     results |-> results, error |-> error]

\* the frame of an invocation whose request has not arrived yet
NewFrame ==
    [pc |-> "idle", params |-> <<>>, query |-> None, max_results |-> 0,
     calls |-> <<>>, replies |-> <<>>, search_response |-> None,
     video_ids |-> <<>>, i |-> 0, detailed_videos |-> <<>>,
     videos_with_scores |-> <<>>, status |-> 0, results |-> <<>>,
     error |-> None]

\* the running invocation is left and the others keep their frames
Suspend(r) ==
    [x \in (DOMAIN suspended \ {r}) \cup {current} |->
        IF x = current THEN Frame ELSE suspended[x]]

\* a fault: detailed_videos is a module-level list, not a local of line 149
SwitchSharingDetails(r) ==
    /\ r \in DOMAIN suspended
    /\ suspended' = Suspend(r)
    /\ current' = r
    /\ pc' = suspended[r].pc
    /\ params' = suspended[r].params
    /\ query' = suspended[r].query
    /\ max_results' = suspended[r].max_results
    /\ calls' = suspended[r].calls
    /\ replies' = suspended[r].replies
    /\ search_response' = suspended[r].search_response
    /\ video_ids' = suspended[r].video_ids
    /\ i' = suspended[r].i
    /\ videos_with_scores' = suspended[r].videos_with_scores
    /\ status' = suspended[r].status
    /\ results' = suspended[r].results
    /\ error' = suspended[r].error
    /\ UNCHANGED <<YOUTUBE_API_KEY, detailed_videos, score_args, score_value>>
    /\ UNCHANGED <<urls_vars, summary_vars, playlist_vars, agent_vars>>

\* the framework leaves the running invocation at an outbound call (or
\* before or after the handler) and resumes invocation r with its own locals
Switch(r) ==
    /\ r \in DOMAIN suspended
    /\ suspended' = Suspend(r)
    /\ current' = r
    /\ pc' = suspended[r].pc
    /\ params' = suspended[r].params
    /\ query' = suspended[r].query
    /\ max_results' = suspended[r].max_results
    /\ calls' = suspended[r].calls
    /\ replies' = suspended[r].replies
    /\ search_response' = suspended[r].search_response
    /\ video_ids' = suspended[r].video_ids
    /\ i' = suspended[r].i
    /\ detailed_videos' = suspended[r].detailed_videos
    /\ videos_with_scores' = suspended[r].videos_with_scores
    /\ status' = suspended[r].status
    /\ results' = suspended[r].results
    /\ error' = suspended[r].error
    /\ UNCHANGED <<YOUTUBE_API_KEY, score_args, score_value>>
    /\ UNCHANGED <<urls_vars, summary_vars, playlist_vars, agent_vars>>

\* the inputs of the concurrent runs
ConcRequests ==
    { [query |-> "cats", max_results |-> 1], [query |-> "cats"] }

ConcSearchResponses ==
    { [items |-> <<Video("A")>>], [items |-> <<Video("B"), Video("A")>>] }

\* two videos of equal score and a video of a higher score
ConcItems ==
    { Item("A", [publishedAt |-> Jan2024],
                [viewCount |-> "1000", likeCount |-> "100"]),
      Item("B", [publishedAt |-> Jan2024Plus1],
                [viewCount |-> "1000", likeCount |-> "100"]),
      Item("B", [publishedAt |-> Jan2025],
                [viewCount |-> "100", likeCount |-> "50"]) }

ConcDetailsResponses ==
    { [items |-> s] : s \in SeqsUpTo(ConcItems, MaxConcDetails) }

InitConc ==
    /\ YOUTUBE_API_KEY \in {None, Some("key")}
    /\ pc = "idle"
    /\ params = <<>>
    /\ query = None
    /\ max_results = 0
    /\ calls = <<>>
    /\ replies = <<>>
    /\ search_response = None
    /\ video_ids = <<>>
    /\ i = 0
    /\ detailed_videos = <<>>
    /\ videos_with_scores = <<>>
    /\ status = 0
    /\ results = <<>>
    /\ error = None
    /\ current = 1
    /\ suspended = [r \in Invocations \ {1} |-> NewFrame]
    /\ score_args = <<>>
    /\ score_value = None
    /\ NoUrlsCall
    /\ NoSummaryCall
    /\ NoPlaylistCall
    /\ NoAgentLoad

NextConc ==
    \/ \E p \in ConcRequests, build_ok \in BOOLEAN : Request(p, build_ok)
    \/ \E response \in ConcSearchResponses : SearchReturns(response)
    \/ /\ pc = "details"
       /\ \E response \in ConcDetailsResponses : DetailsReturns(response)
    \/ \E code \in UpstreamStatuses : UpstreamFails(code)
    \/ \E r \in Invocations : Switch(r)

SpecConc == InitConc /\ [][NextConc]_vars

-----------------------------------------------------------------------------
(* get_channel_videos_for_date, src/youtube-urls-mcp/main.py:74-154: the    *)
(* search pages of a channel are fetched one after the other, following     *)
(* nextPageToken, and the videos published on the target UTC day are kept.  *)
(* The target date string YYYY-MM-DD is the tuple <<year, month, day>>.     *)

\* line 95: strptime(s, "%Y-%m-%d") accepts the string
IsDate(t) ==
    /\ t[1] \in 1..9999
    /\ t[2] \in 1..12
    /\ t[3] \in 1..DaysInMonth(t[1], t[2])

\* line 102: the day after
NextDay(t) ==
    IF t[3] < DaysInMonth(t[1], t[2]) THEN <<t[1], t[2], t[3] + 1>>
    ELSE IF t[2] < 12 THEN <<t[1], t[2] + 1, 1>>
    ELSE <<t[1] + 1, 1, 1>>

\* lines 101-105: midnight UTC of the day, written with Z
StartOfDay(t) == <<t[1], t[2], t[3], 0, 0, 0, "Z">>

\* lines 113-122
PageCall(channel_id, t, token) ==
    [api |-> "search", channelId |-> channel_id, type |-> "video",
     order |-> "date", publishedAfter |-> StartOfDay(t),
     publishedBefore |-> StartOfDay(NextDay(t)), maxResults |-> 50,
     pageToken |-> token]

\* the last day a datetime can hold, 9999-12-31
MaxOrdinal == Ordinal(9999, 12, 31)

\* line 131: the day (counted from 0001-01-01) of the instant in UTC
UtcDay(s) ==
    Ordinal(s[1], s[2], s[3])
        + ((s[4] * 3600 + s[5] * 60 + s[6] - UTCOffsets[s[7]]) \div 86400)

\* line 126: item.get("id", {}).get("videoId")
VideoIdOf(item) ==
    Get(IF "id" \in DOMAIN item THEN item["id"] ELSE <<>>, "videoId")

\* line 127: item.get("snippet", {}).get("publishedAt")
PublishedOf(item) ==
    Get(IF "snippet" \in DOMAIN item THEN item["snippet"] ELSE <<>>,
        "publishedAt")

\* line 128: if video_id and published_at_str
Considered(item) ==
    /\ TruthyStr(VideoIdOf(item))
    /\ PublishedOf(item) \notin {None, Some(EmptyDate)}

\* line 131: published_at_str.replace('Z', '+00:00')
ReplacedDate(item) ==
    [PublishedOf(item)[1] EXCEPT ![7] = ReplaceZ(@)]

\* line 131: astimezone(timezone.utc) raises OverflowError when the instant
\* in UTC is outside the years 1..9999; only ValueError is caught (line 139)
ItemOverflows(item) ==
    /\ Considered(item)
    /\ ParsesIso(ReplacedDate(item))
    /\ UtcDay(ReplacedDate(item)) \notin 1..MaxOrdinal

\* lines 128-133: the item is kept
ItemMatches(item, t) ==
    /\ Considered(item)
    /\ ParsesIso(ReplacedDate(item))
    /\ UtcDay(ReplacedDate(item)) = Ordinal(t[1], t[2], t[3])

\* line 134
WatchUrl(video_id) == "https://www.youtube.com/watch?v=" \o video_id

WatchUrls(kept) ==
    List([k \in DOMAIN kept |-> WatchUrl(kept[k]["id"]["videoId"])])

\* lines 125-140 on the items of one page
UrlsOf(items, t) ==
    LET Matches(item) == ItemMatches(item, t)
    IN  WatchUrls(SelectSeq(items, Matches))

\* the items before the first one on which line 131 raises OverflowError
BeforeOverflow(items) ==
    SubSeq(items, 1,
           (CHOOSE k \in DOMAIN items :
                /\ ItemOverflows(items[k])
                /\ \A j \in 1..(k - 1) : ~ItemOverflows(items[j])) - 1)

\* the most pages one call fetches
MaxPages == 3

\* lines 92-123: the date is parsed and the first page is requested
GetChannelVideos(channel_id, target_date_str) ==
    /\ urls_pc = "idle"
    /\ UNCHANGED <<next_page_token, video_urls, pages>>
    /\ UNCHANGED <<search_vars, summary_vars, playlist_vars, agent_vars>>
    /\ IF ~IsDate(target_date_str)
       THEN /\ raised' = Some("ValueError")
            /\ urls_pc' = "raised"
            /\ UNCHANGED <<target_date, page_calls>>
       ELSE /\ target_date' = Some(target_date_str)
            /\ page_calls' =
                   <<PageCall(channel_id, target_date_str, None)>>
            /\ urls_pc' = "page"
            /\ UNCHANGED raised

\* lines 123-147: a page arrives, its items are filtered and the next page
\* is requested, or the URLs are returned when the page has no token
PageReturns(response) ==
    LET items == ItemsOf(response)
        token == Get(response, "nextPageToken")
        channel_id == page_calls[1].channelId
    IN  /\ urls_pc = "page"
        /\ TruthyStr(token) => Len(pages) + 1 < MaxPages
        /\ pages' = Append(pages, response)
        /\ UNCHANGED target_date
        /\ UNCHANGED <<search_vars, summary_vars, playlist_vars, agent_vars>>
        /\ IF \E k \in DOMAIN items : ItemOverflows(items[k])
           THEN /\ video_urls' =
                       video_urls \o UrlsOf(BeforeOverflow(items),
                                            target_date[1])
                /\ raised' = Some("OverflowError")
                /\ urls_pc' = "raised"
                /\ UNCHANGED <<next_page_token, page_calls>>
           ELSE /\ video_urls' = video_urls \o UrlsOf(items, target_date[1])
                /\ next_page_token' = token
                /\ UNCHANGED raised
                /\ IF TruthyStr(token)
                   THEN /\ page_calls' =
                               Append(page_calls,
                                      PageCall(channel_id, target_date[1],
                                               token))
                        /\ UNCHANGED urls_pc
                   ELSE /\ urls_pc' = "returned"
                        /\ UNCHANGED page_calls

\* lines 149-151: an HttpError of a search call is raised again
PageFails ==
    /\ urls_pc = "page"
    /\ raised' = Some("HttpError")
    /\ urls_pc' = "raised"
    /\ UNCHANGED <<target_date, next_page_token, video_urls, page_calls,
                   pages>>
    /\ UNCHANGED <<search_vars, summary_vars, playlist_vars, agent_vars>>

\* the inputs: target dates (2024-02-30 is no date), publishedAt strings
\* around 2024-01-01 UTC and pages
TargetDates == { <<2024, 1, 1>>, <<2024, 2, 30>> }

LateMinus5 == <<2024, 1, 1, 23, 30, 0, "-05:00">>

EarlyPlus1 == <<2024, 1, 2, 0, 30, 0, "+01:00">>

EndOfDay == <<2024, 1, 1, 23, 59, 59, "Z">>

YearOne == <<1, 1, 1, 0, 0, 0, "+01:00">>

UrlItem(v, published) ==
    [id |-> [kind |-> "youtube#video", videoId |-> v],
     snippet |-> [publishedAt |-> published]]

\* the items of a page
PageItems ==
    { <<>>,
      <<UrlItem("a", Jan2024), UrlItem("b", LateMinus5),
        UrlItem("c", EarlyPlus1)>>,
      <<UrlItem("d", NoDate),
        [id |-> [kind |-> "youtube#channel", channelId |-> "UC1"],
         snippet |-> [publishedAt |-> Jan2024]],
        UrlItem("e", EndOfDay)>>,
      <<[id |-> [kind |-> "youtube#video", videoId |-> "f"]],
        UrlItem("g", Jan2025), UrlItem("a", Jan2024Plus1),
        UrlItem("", Jan2024), UrlItem("h", EmptyDate)>>,
      <<UrlItem("i", Jan2024), UrlItem("y", YearOne), UrlItem("j", Jan2024)>> }

\* pages with a token, with an empty token, without token, without items
UrlPages ==
    { [items |-> s, nextPageToken |-> t] : s \in PageItems, t \in {"T", ""} }
        \cup { [items |-> s] : s \in PageItems }
        \cup { <<>>, [nextPageToken |-> "T"] }

NextUrls ==
    \/ \E t \in TargetDates : GetChannelVideos("UC123", t)
    \/ \E response \in UrlPages : PageReturns(response)
    \/ PageFails

SpecUrls == Init /\ [][NextUrls]_vars

-----------------------------------------------------------------------------
(* Properties of GET /search *)

\* the handler returned a ranked sequence
Succeeded == pc = "done" /\ status = 200

\* the score calculate_score gives to an output item
ScoreOfItem(v) == calculate_score(v.viewCount, v.likeCount, v.publishedAt)

RatLess(a, b) == ~RatLeq(b, a)

Range(f) == {f[k] : k \in DOMAIN f}

\* the published date of a detail item, or None
PublishedAtOf(video_data) == Get(video_data["snippet"], "publishedAt")

\* the number of detail items that survive enrichment and scoring
Survivors ==
    Cardinality({k \in DOMAIN detailed_videos :
                    PublishedAtOf(detailed_videos[k])
                        \notin {None, Some(EmptyDate)}})

\* C1: in a successful response every item scores at least as high as the
\* item after it, and every scored video left out by the truncation scores
\* at most as high as the last item returned.
C1_SortedByScore ==
    Succeeded =>
        /\ \A k \in 1..(Len(results) - 1) :
               RatLeq(ScoreOfItem(results[k + 1]), ScoreOfItem(results[k]))
        /\ \A k \in (Len(results) + 1)..Len(videos_with_scores) :
               /\ results # <<>>
               /\ RatLeq(videos_with_scores[k].customScore,
                         ScoreOfItem(results[Len(results)]))

\* two items are returned in strictly descending score, a third, of a lower
\* score and first in the details response, is left out
C1_Witness ==
    /\ Succeeded
    /\ Len(results) = 2
    /\ Len(detailed_videos) = 3
    /\ Len(videos_with_scores) = 3
    /\ RatLess(ScoreOfItem(results[2]), ScoreOfItem(results[1]))
    /\ RatLess(videos_with_scores[3].customScore, ScoreOfItem(results[2]))
    /\ detailed_videos[1].id = videos_with_scores[3].id
    /\ detailed_videos[2].id = results[2].id

\* C2: a successful response holds exactly min(N, S) items, N the result
\* count and S the number of survivors, hence at most min(N, P, S) with
\* P = INITIAL_FETCH_COUNT; fewer than N survivors are all returned.
C2_ResultCount ==
    Succeeded =>
        /\ max_results \in 1..INITIAL_FETCH_COUNT
        /\ Len(results) = Min(max_results, Survivors)
        /\ Len(results) <= Min(Min(max_results, INITIAL_FETCH_COUNT),
                               Survivors)
        /\ Survivors < max_results => Len(results) = Survivors

\* one run truncates (three survivors, two returned)
C2_Witness ==
    /\ Succeeded
    /\ max_results = 2
    /\ Survivors = 3
    /\ Len(results) = 2

\* the candidate pool and the identifiers the details responses carry
PoolIds == Range(video_ids)

DetailIds == {detailed_videos[k]["id"] : k \in DOMAIN detailed_videos}

\* the position of an identifier in the pool
PoolIndex(v) == CHOOSE k \in DOMAIN video_ids :
                    video_ids[k] = v /\ \A j \in 1..(k - 1) : video_ids[j] # v

\* C3: every item of a successful response carries an identifier of the
\* candidate pool, whatever the details responses contain.
C3_OutputInPool ==
    Succeeded => \A k \in DOMAIN results : results[k].id \in PoolIds

\* C4: two returned items of equal score keep the relative order their
\* identifiers have in the candidate pool.
C4_TiesKeepPoolOrder ==
    Succeeded =>
        \A j, k \in DOMAIN results :
            (/\ j < k
             /\ ScoreOfItem(results[j]) = ScoreOfItem(results[k])
             /\ results[j].id # results[k].id
             /\ results[j].id \in PoolIds
             /\ results[k].id \in PoolIds)
                => PoolIndex(results[j].id) < PoolIndex(results[k].id)

\* every details call of the run has returned
DetailsComplete ==
    /\ pc = "done"
    /\ replies # <<>>
    /\ Len(replies) = Cardinality({k \in DOMAIN calls : calls[k].api = "videos"})

\* the output item is made of a detail item that was received
MadeOf(v, video_data) ==
    /\ v.id = video_data["id"]
    /\ Some(v.publishedAt) = PublishedAtOf(video_data)
    /\ v.viewCount = ToInt(Get(video_data["statistics"], "viewCount"))
    /\ v.likeCount = ToInt(Get(video_data["statistics"], "likeCount"))

\* C6: a candidate of the pool without details is dropped: the request
\* fails only when a received item cannot be scored, the candidate is not in
\* the output, no record stands in for it (every output item is made of a
\* received detail item and the length is min(N, survivors)).
C6_MissingDropped ==
    (DetailsComplete /\ PoolIds \ DetailIds # {}) =>
        /\ status = 200 \/ (status = 500 /\ \E k \in DOMAIN detailed_videos :
                                   ScoringRaises(detailed_videos[k]))
        /\ status = 200 =>
               /\ \A k \in DOMAIN results :
                      /\ results[k].id \notin PoolIds \ DetailIds
                      /\ \E j \in DOMAIN detailed_videos :
                             MadeOf(results[k], detailed_videos[j])
               /\ Len(results) = Min(max_results, Survivors)

\* the scenario of the spec: the pool is A, B, C, the details hold A
\* (1000 views, 100 likes, 2024) and B (100 views, 50 likes, 2025); the
\* output is B, A
C6_Witness ==
    /\ Succeeded
    /\ video_ids = <<"A", "B", "C">>
    /\ Len(detailed_videos) = 2
    /\ detailed_videos[1] = Item("A", [publishedAt |-> Jan2024],
                                 [viewCount |-> "1000", likeCount |-> "100"])
    /\ detailed_videos[2] = Item("B", [publishedAt |-> Jan2025],
                                 [viewCount |-> "100", likeCount |-> "50"])
    /\ Len(results) = 2
    /\ results[1].id = "B"
    /\ results[2].id = "A"

\* C7 as claimed: with N at least the number of detail items, every
\* identifier the details responses carry is in the output.
C7_AllAcknowledgedReturned ==
    (Succeeded /\ max_results >= Len(detailed_videos)) =>
        \A j \in DOMAIN detailed_videos :
            \E k \in DOMAIN results : results[k].id = detailed_videos[j]["id"]

\* C7 as amended: with N at least the number of detail items, every detail
\* item that carries a non-empty publishedAt is in the output, and nothing
\* else is: the items without publishedAt are skipped.
C7_DatedAcknowledgedReturned ==
    (Succeeded /\ max_results >= Len(detailed_videos)) =>
        /\ \A j \in DOMAIN detailed_videos :
               PublishedAtOf(detailed_videos[j])
                       \notin {None, Some(EmptyDate)} =>
                   \E k \in DOMAIN results :
                       MadeOf(results[k], detailed_videos[j])
        /\ Len(results) = Survivors

\* three detail items, one of them without publishedAt and without
\* statistics on another: two are returned
C7_Witness ==
    /\ Succeeded
    /\ max_results >= Len(detailed_videos)
    /\ Len(detailed_videos) = 3
    /\ \E j \in DOMAIN detailed_videos :
           PublishedAtOf(detailed_videos[j]) = None
    /\ \E j \in DOMAIN detailed_videos :
           /\ PublishedAtOf(detailed_videos[j]) # None
           /\ detailed_videos[j]["statistics"] = <<>>
    /\ Len(results) = 2

\* the search response holds no item whose kind is a video
NoVideoResult(response) ==
    \A k \in DOMAIN ItemsOf(response) :
        Get(ItemsOf(response)[k]["id"], "kind") # Some("youtube#video")

\* C8: a search response without a video ends the run with status 200 and
\* an empty sequence, and no details call is issued.
C8_NoVideoEmptyResult ==
    (search_response # None /\ NoVideoResult(search_response[1])) =>
        /\ Succeeded
        /\ results = <<>>
        /\ \A k \in DOMAIN calls : calls[k].api # "videos"

\* the search response holds a channel only
C8_Witness ==
    /\ search_response = Some([items |-> <<Channel>>])
    /\ Succeeded
    /\ Len(calls) = 1

\* C9: a request without query, with an empty query or with max_results
\* outside 1..50 is rejected with a 4xx before any outbound call; a run with
\* an outbound call has a non-empty query and 1 <= max_results <= 50.
C9_InvalidRequestRejected ==
    pc # "idle" =>
        /\ (\/ Get(params, "query") \in {None, Some("")}
            \/ /\ "max_results" \in DOMAIN params
               /\ params["max_results"] \notin 1..50)
               => (status \in 400..499 /\ calls = <<>>)
        /\ calls # <<>> =>
               /\ query \notin {None, Some("")}
               /\ max_results \in 1..50

-----------------------------------------------------------------------------
(* Properties of calculate_score *)

\* the ratio the score is claimed to use
ClaimedRatio(view, like) ==
    IF view # None /\ like # None /\ view[1] > 0
    THEN Rat(like[1], view[1])
    ELSE IF like # None /\ like[1] > 0 /\ (view = None \/ view[1] = 0)
         THEN Rat(1, 100)
         ELSE Rat(0, 1)

\* the POSIX timestamps of the publishedAt strings that are ISO-8601
PosixTimestamps ==
    [d \in {Jan2024, Jan2025, Jan2024Plus1, LeapDay} |->
        CASE d = Jan2024 -> 1704067200
          [] d = Jan2025 -> 1735689600
          [] d = Jan2024Plus1 -> 1704067200
          [] d = LeapDay -> 1709227800]

\* the recency the score is claimed to use: timestamp / 1e10, or 0
ClaimedRecency(d) ==
    IF d \in DOMAIN PosixTimestamps
    THEN RatDivInt(RatDivInt(Rat(PosixTimestamps[d], 1), 100000), 100000)
    ELSE Rat(0, 1)

\* C5: calculate_score returns 0.6 * ratio + 0.4 * recency, the ratio being
\* like / view, 0.01 or 0 and the recency timestamp / 1e10 or 0 as claimed.
C5_WeightedSum ==
    score_value # None =>
        score_value[1] =
            RatAdd(RatMul(Rat(6, 10),
                          ClaimedRatio(score_args[1], score_args[2])),
                   RatMul(Rat(4, 10), ClaimedRecency(score_args[3])))

\* likes without a view count and a date with an offset: 0.6 * 0.01 +
\* 0.4 * 0.17092278 = 0.074369112
C5_Witness ==
    /\ score_args = <<None, Some(5), LeapDay>>
    /\ score_value = Some(Rat(9296139, 125000000))

-----------------------------------------------------------------------------
(* Properties of the batches *)

IsDetailsCall(c) == c.api = "videos"

DetailsCalls == SelectSeq(calls, IsDetailsCall)

RECURSIVE Flatten(_)
Flatten(seqs) ==
    IF seqs = <<>> THEN <<>> ELSE Head(seqs) \o Flatten(Tail(seqs))

\* C10: the k-th details call carries the k-th slice of 50 identifiers of the
\* pool (the last one shorter), so the slices are consecutive, disjoint and
\* of at most 50; once every call has returned, the identifiers requested are
\* the pool, each once, and detailed_videos is the concatenation of the
\* responses in call order.
C10_Batches ==
    /\ \A k \in DOMAIN DetailsCalls :
           /\ Len(DetailsCalls[k].id) \in 1..50
           /\ DetailsCalls[k].id =
                  SubSeq(video_ids, 50 * (k - 1) + 1,
                         Min(50 * k, Len(video_ids)))
    /\ Len(replies) <= Len(DetailsCalls)
    /\ detailed_videos =
           Flatten([k \in DOMAIN replies |-> ItemsOf(replies[k])])
    /\ DetailsComplete =>
           Flatten([k \in DOMAIN DetailsCalls |-> DetailsCalls[k].id])
               = video_ids

\* a pool of 101 identifiers is fetched in three calls of 50, 50 and 1
C10_Witness ==
    /\ DetailsComplete
    /\ Len(video_ids) = 101
    /\ Len(DetailsCalls) = 3
    /\ Len(DetailsCalls[1].id) = 50
    /\ Len(DetailsCalls[3].id) = 1
    /\ Len(replies) = 3
    /\ Len(detailed_videos) = 101
    /\ status = 200

-----------------------------------------------------------------------------
(* Properties of the failures *)

\* the outbound calls that returned a response
Returned == Len(replies) + (IF search_response = None THEN 0 ELSE 1)

\* C11: once a search or details call has failed with an HttpError of status
\* s, the run is over, the failed call is the last call issued (no retry, no
\* remaining batch), and the answer is one error of status s, 502 or 503;
\* any other exception caught in the handler is answered with status 500.
C11_UpstreamErrorEndsRun ==
    error # None =>
        /\ pc = "done"
        /\ results = <<>>
        /\ error[1].type = "HttpError" =>
               /\ status \in {error[1].status, 502, 503}
               /\ Len(calls) = Returned + 1
        /\ error[1].type # "HttpError" => status = 500

\* a pool of 101 identifiers: the second details call fails with 503 and the
\* third batch is never requested
C11_Witness ==
    /\ error = Some(HttpError(503))
    /\ status = 503
    /\ Len(video_ids) = 101
    /\ Len(replies) = 1
    /\ Len(calls) = 3
    /\ Len(calls[3].id) = 50

\* C12: a finished request is either a ranked sequence (status 200) or one
\* error without a body; a failed search or details call and a failure of
\* the service itself (no client, a request that cannot be scored) are
\* answered with a 5xx status, and a 4xx status is given to a request that
\* does not validate only.
C12_StatusClassTellsFault ==
    pc = "done" =>
        /\ status = 200 \/ (status \in 400..599 /\ results = <<>>)
        /\ error # None => status \in 500..599
        /\ (Validates(params) /\ calls = <<>>) => status \in 500..599
        /\ status \in 400..499 => ~Validates(params)

-----------------------------------------------------------------------------
(* Properties of partial data *)

\* the detail item carries a publishedAt string that is no ISO-8601 date
Unparseable(video_data) ==
    /\ PublishedAtOf(video_data) # None
    /\ PublishedAtOf(video_data)[1] \notin DOMAIN PosixTimestamps

\* the detail item lacks viewCount, likeCount or both
LacksStatistics(video_data) ==
    {"viewCount", "likeCount"} \ DOMAIN video_data["statistics"] # {}

\* every details call has returned and every count received is an integer
PartialDataOnly ==
    /\ DetailsComplete
    /\ \A j \in DOMAIN detailed_videos :
           \A c \in {"viewCount", "likeCount"} :
               c \in DOMAIN detailed_videos[j]["statistics"] =>
                   detailed_videos[j]["statistics"][c] \in DOMAIN IntOf

\* the scored records made of a detail item
RecordsMadeOf(video_data) ==
    {k \in DOMAIN videos_with_scores :
        MadeOf(videos_with_scores[k], video_data)}

\* C13 as claimed: the request succeeds, and every detail item with an
\* unparseable publishedAt or without a count is ranked, with a recency
\* component (respectively a ratio component) of 0.
C13_PartialDataScoresZero ==
    PartialDataOnly =>
        /\ status = 200
        /\ \A j \in DOMAIN detailed_videos :
               LET d == detailed_videos[j]
               IN  (Unparseable(d) \/ (PublishedAtOf(d) # None
                                          /\ LacksStatistics(d))) =>
                       /\ RecordsMadeOf(d) # {}
                       /\ \A k \in RecordsMadeOf(d) :
                              LET r == videos_with_scores[k]
                              IN  /\ Unparseable(d) =>
                                         r.customScore =
                                             RatMul(Rat(6, 10),
                                                    ClaimedRatio(r.viewCount,
                                                                 r.likeCount))
                                  /\ LacksStatistics(d) =>
                                         r.customScore =
                                             RatMul(Rat(4, 10),
                                                    ClaimedRecency(
                                                        r.publishedAt))

\* C13 as amended: the request succeeds, and every detail item with a
\* non-empty publishedAt is ranked whatever else it lacks; an unparseable
\* publishedAt gives a recency component of 0; a missing count gives a ratio
\* component of 0, or of 0.01 when likeCount is positive and viewCount is the
\* missing one; an empty publishedAt drops the item.
C13_PartialDataDegrades ==
    PartialDataOnly =>
        /\ status = 200
        /\ \A j \in DOMAIN detailed_videos :
               LET d == detailed_videos[j]
               IN  IF PublishedAtOf(d) \in {None, Some(EmptyDate)}
                   THEN RecordsMadeOf(d) = {}
                   ELSE /\ RecordsMadeOf(d) # {}
                        /\ \A k \in RecordsMadeOf(d) :
                              LET r == videos_with_scores[k]
                                  ratio == IF r.likeCount # None
                                              /\ r.likeCount[1] > 0
                                              /\ r.viewCount = None
                                           THEN Rat(1, 100) ELSE Rat(0, 1)
                              IN  /\ Unparseable(d) =>
                                         r.customScore =
                                             RatMul(Rat(6, 10),
                                                    ClaimedRatio(r.viewCount,
                                                                 r.likeCount))
                                  /\ LacksStatistics(d) =>
                                         r.customScore =
                                             RatAdd(RatMul(Rat(6, 10), ratio),
                                                    RatMul(Rat(4, 10),
                                                           ClaimedRecency(
                                                               r.publishedAt)))

\* a video without statistics and a video with an unparseable publishedAt
\* and likes only are both returned
C13_Witness ==
    /\ Succeeded
    /\ Len(detailed_videos) = 2
    /\ detailed_videos[1] = Item("C", [publishedAt |-> Jan2024Plus1], <<>>)
    /\ detailed_videos[2] = Item("C", [publishedAt |-> NoDate],
                                 [likeCount |-> "5"])
    /\ Len(results) = 2
    /\ results[1].publishedAt = Jan2024Plus1
    /\ results[2].likeCount = Some(5)
    /\ videos_with_scores[2].customScore = Rat(6, 1000)

-----------------------------------------------------------------------------
(* Properties of several runs *)

\* the frame of invocation r, running or not
FrameOf(r) == IF r = current THEN Frame ELSE suspended[r]

ReceivedBy(f) == Flatten([k \in DOMAIN f.replies |-> ItemsOf(f.replies[k])])

\* the status a finished invocation returns when it runs alone on the
\* request, the responses and the failure it got
StatusAlone(f) ==
    IF ~Validates(f.params) THEN 422
    ELSE IF f.calls = <<>> THEN 500
    ELSE IF f.error # None /\ f.error[1].type = "HttpError"
         THEN f.error[1].status
    ELSE IF \E k \in DOMAIN ReceivedBy(f) : ScoringRaises(ReceivedBy(f)[k])
         THEN 500
    ELSE 200

\* the sequence it returns when it runs alone
ResultsAlone(f) ==
    IF StatusAlone(f) # 200 THEN <<>>
    ELSE FormatResults(TopVideos(SortByScore(ScoreAll(ReceivedBy(f))),
                                 MaxResultsOf(f.params)))

\* the locals of every invocation come from its own request and responses,
\* and a finished invocation returned what it returns alone
Isolated ==
    \A r \in DOMAIN suspended \cup {current} :
        LET f == FrameOf(r)
        IN  /\ f.detailed_videos = ReceivedBy(f)
            /\ f.search_response # None =>
                   f.video_ids = CollectVideoIds(ItemsOf(f.search_response[1]))
            /\ \A k \in DOMAIN f.calls :
                   IF k = 1 THEN f.calls[k] = SearchCall(f.params["query"])
                   ELSE f.calls[k] =
                            DetailsCall(BatchIds(f.video_ids, 50 * (k - 2)))
            /\ f.pc = "done" =>
                   /\ f.status = StatusAlone(f)
                   /\ f.results = ResultsAlone(f)

\* C19: under every interleaving of the invocations at their outbound
\* calls, each invocation works on its own request and responses and
\* returns what it returns alone, and no step changes YOUTUBE_API_KEY (the
\* weights, the scale factor and the pool size are constants).
C19_NoInterference ==
    /\ []Isolated
    /\ [][YOUTUBE_API_KEY' = YOUTUBE_API_KEY]_vars

\* the second invocation has returned B, A for the pool B, A while the first
\* one, on another request and another pool, waits for its details
C19_Witness ==
    /\ current = 2
    /\ Succeeded
    /\ video_ids = <<"B", "A">>
    /\ max_results = 10
    /\ Len(results) = 2
    /\ results[1].id = "B"
    /\ results[2].id = "A"
    /\ suspended[1].pc = "details"
    /\ suspended[1].video_ids = <<"A">>
    /\ suspended[1].max_results = 1

-----------------------------------------------------------------------------
(* More properties of calculate_score *)

-----------------------------------------------------------------------------
(* Properties of the ranking on particular pools *)

\* every candidate has viewCount 0, likeCount 0 and a publishedAt that parses
AllZeroCounts ==
    \A j \in DOMAIN detailed_videos :
        /\ Get(detailed_videos[j]["statistics"], "viewCount") = Some("0")
        /\ Get(detailed_videos[j]["statistics"], "likeCount") = Some("0")
        /\ PublishedAtOf(detailed_videos[j]) # None
        /\ PublishedAtOf(detailed_videos[j])[1] \in DOMAIN PosixTimestamps

\* C16: when every candidate has viewCount 0 and likeCount 0, every score is
\* 0.4 * timestamp / 1e10 (the ratio component is 0) and of two returned
\* items the one published at the later instant comes first.
C16_ZeroCountsRankByRecency ==
    (Succeeded /\ AllZeroCounts) =>
        /\ \A k \in DOMAIN videos_with_scores :
               videos_with_scores[k].customScore =
                   RatMul(Rat(4, 10),
                          ClaimedRecency(videos_with_scores[k].publishedAt))
        /\ \A j, k \in DOMAIN results :
               PosixTimestamps[results[j].publishedAt]
                       > PosixTimestamps[results[k].publishedAt]
                   => j < k

\* the details come oldest first and are returned most recent first
C16_Witness ==
    /\ Succeeded
    /\ AllZeroCounts
    /\ Len(detailed_videos) = 3
    /\ detailed_videos[1]["snippet"]["publishedAt"] = Jan2024
    /\ detailed_videos[2]["snippet"]["publishedAt"] = LeapDay
    /\ detailed_videos[3]["snippet"]["publishedAt"] = Jan2025
    /\ Len(results) = 3
    /\ results[1].publishedAt = Jan2025
    /\ results[2].publishedAt = LeapDay
    /\ results[3].publishedAt = Jan2024

\* C17: no identifier occurs twice in the scored records or in the returned
\* sequence, whatever the search and details responses hold.
C17_IdentifiersUnique ==
    /\ \A j, k \in DOMAIN videos_with_scores :
           j # k => videos_with_scores[j].id # videos_with_scores[k].id
    /\ \A j, k \in DOMAIN results : j # k => results[j].id # results[k].id

-----------------------------------------------------------------------------
(* Properties of the counts *)

\* the count c of the record r is the one the detail item reports: absent
\* when the item has none, and 0 only when the item reports 0
CountAsReported(r, video_data, c) ==
    LET reported == Get(video_data["statistics"], c)
    IN  /\ reported = None => r[c] = None
        /\ reported # None => r[c] = Some(IntOf[reported[1]])
        /\ r[c] = Some(0) => reported = Some("0")

\* C18: every returned item carries the counts of a detail item as reported
\* (an absent count is None, never 0), and the score of every record is the
\* one the ratio rules give to its counts: ratio 0 for an absent count, or
\* 0.01 when the likes are positive and the views absent.
C18_AbsentCountsStayUnknown ==
    Succeeded =>
        /\ \A k \in DOMAIN results :
               \E j \in DOMAIN detailed_videos :
                   /\ results[k].id = detailed_videos[j]["id"]
                   /\ Some(results[k].publishedAt)
                          = PublishedAtOf(detailed_videos[j])
                   /\ CountAsReported(results[k], detailed_videos[j],
                                      "viewCount")
                   /\ CountAsReported(results[k], detailed_videos[j],
                                      "likeCount")
        /\ \A k \in DOMAIN videos_with_scores :
               LET r == videos_with_scores[k]
               IN  r.customScore =
                       RatAdd(RatMul(Rat(6, 10),
                                     ClaimedRatio(r.viewCount, r.likeCount)),
                              RatMul(Rat(4, 10),
                                     ClaimedRecency(r.publishedAt)))

\* a video without statistics, a video with likes only and a video with 0
\* views and 0 likes are returned with None, None and 5, and 0 and 0
C18_Witness ==
    /\ Succeeded
    /\ Len(results) = 3
    /\ \E k \in DOMAIN results :
           /\ results[k].viewCount = None
           /\ results[k].likeCount = None
    /\ \E k \in DOMAIN results :
           /\ results[k].viewCount = None
           /\ results[k].likeCount = Some(5)
    /\ \E k \in DOMAIN results :
           /\ results[k].viewCount = Some(0)
           /\ results[k].likeCount = Some(0)

-----------------------------------------------------------------------------
(* Properties of get_channel_videos_for_date *)

\* the UTC calendar date of the publishedAt strings that are ISO-8601
UtcDates ==
    [d \in {Jan2024, Jan2024Plus1, LateMinus5, EarlyPlus1, EndOfDay, Jan2025,
            YearOne} |->
        CASE d = Jan2024 -> <<2024, 1, 1>>
          [] d = Jan2024Plus1 -> <<2024, 1, 1>>
          [] d = LateMinus5 -> <<2024, 1, 2>>
          [] d = EarlyPlus1 -> <<2024, 1, 1>>
          [] d = EndOfDay -> <<2024, 1, 1>>
          [] d = Jan2025 -> <<2025, 1, 1>>
          [] d = YearOne -> <<0, 12, 31>>]

\* the item has a videoId and a publishedAt of the target UTC date
OfTargetDay(item) ==
    /\ "id" \in DOMAIN item
    /\ "videoId" \in DOMAIN item["id"]
    /\ item["id"]["videoId"] # ""
    /\ "snippet" \in DOMAIN item
    /\ "publishedAt" \in DOMAIN item["snippet"]
    /\ item["snippet"]["publishedAt"] \in DOMAIN UtcDates
    /\ Some(UtcDates[item["snippet"]["publishedAt"]]) = target_date

\* the page carries a token
HasToken(page) == Get(page, "nextPageToken") \notin {None, Some("")}

\* the watch URLs of the items of the target day over the pages received
UrlsOfTargetDay ==
    LET wanted == SelectSeq(Flatten([k \in DOMAIN pages |->
                                        ItemsOf(pages[k])]), OfTargetDay)
    IN  [k \in DOMAIN wanted |->
            "https://www.youtube.com/watch?v=" \o wanted[k]["id"]["videoId"]]

\* the pages are fetched one after the other, each call after the first
\* carrying the token of the page before; the function returns at the first
\* page without token, and then with the watch URLs of the items of the
\* target day, in page and item order
PagesFollowed ==
    /\ Len(page_calls) =
           Len(pages) + (IF urls_pc = "page" \/ raised = Some("HttpError")
                         THEN 1 ELSE 0)
    /\ \A k \in 2..Len(page_calls) :
           page_calls[k].pageToken = Get(pages[k - 1], "nextPageToken")
    /\ \A k \in DOMAIN pages :
           ~HasToken(pages[k]) =>
               (k = Len(pages) /\ urls_pc \in {"returned", "raised"})
    /\ urls_pc = "returned" =>
           /\ pages # <<>>
           /\ ~HasToken(pages[Len(pages)])
           /\ video_urls = UrlsOfTargetDay

\* C20: the function returns exactly the watch URLs of the items of the
\* target UTC day over the pages followed, in order, returns at the first
\* page without token, and no item makes it fail: it raises only for a target
\* date that is no date (before any call) or for a failed search call.
C20_UrlsOfTargetDay ==
    /\ PagesFollowed
    /\ raised \in {None, Some("ValueError"), Some("HttpError")}
    /\ raised = Some("ValueError") => page_calls = <<>>

-----------------------------------------------------------------------------
(* generate_summary, src/final-summary-mcp/main.py:28-103: POST /summary     *)
(* wraps the posted key points in a prompt and answers with the text of the  *)
(* generative model.  The posted text is the sequence of its key points.     *)

\* the search handler has not been called
NoSearchCall ==
    /\ YOUTUBE_API_KEY = None
    /\ pc = "idle"
    /\ params = <<>>
    /\ query = None
    /\ max_results = 0
    /\ calls = <<>>
    /\ replies = <<>>
    /\ search_response = None
    /\ video_ids = <<>>
    /\ i = 0
    /\ detailed_videos = <<>>
    /\ videos_with_scores = <<>>
    /\ status = 0
    /\ results = <<>>
    /\ error = None
    /\ current = 1
    /\ suspended = <<>>
    /\ score_args = <<>>
    /\ score_value = None

\* the longest posted list of key points
MaxPoints == 3

KeyPoints == {"p1", "p2"}

\* the posted bodies
Bodies == SeqsUpTo(KeyPoints, MaxPoints)

\* the generative service: genai.Client(...) is built or raises, and
\* generate_content answers a text or raises
GeminiBehaviours ==
    [client : {"ok", "raises"}, generate : {"answers", "raises"}]

\* lines 64-79: the prompt is the fixed template around the input data
prompt_template(data) == [template |-> "final summary", input_data |-> data]

\* response.text of the model for a prompt
GeneratedText(prompt) == <<"summary of", prompt.input_data>>

\* line 62 reads the name request; the module binds Request (line 8) and
\* the parameter input_data, and no name request: the read raises NameError
RequestIsBound == FALSE

InitSummary ==
    /\ NoSearchCall
    /\ NoUrlsCall
    /\ NoPlaylistCall
    /\ NoAgentLoad
    /\ GEMINI_API_KEY \in {None, Some(""), Some("key")}
    /\ gemini \in GeminiBehaviours
    /\ summary_pc = "idle"
    /\ input_data = <<>>
    /\ model_calls = <<>>
    /\ summary_status = 0
    /\ summary_body = <<>>
    /\ summary_error = None

\* the handler returns or raises: the response is sent
SummaryResponds(code, body) ==
    /\ summary_pc' = "done"
    /\ summary_status' = code
    /\ summary_body' = body

\* lines 34-103: the whole handler
generate_summary(body) ==
    /\ summary_pc = "idle"
    /\ UNCHANGED <<GEMINI_API_KEY, gemini>>
    /\ UNCHANGED <<search_vars, urls_vars, playlist_vars, agent_vars>>
    /\ input_data' = body
    /\ IF ~TruthyStr(GEMINI_API_KEY)
       THEN \* lines 48-54, outside the try block
            /\ SummaryResponds(500, <<>>)
            /\ UNCHANGED <<model_calls, summary_error>>
       ELSE IF gemini.client = "raises"
       THEN \* lines 58-60 raise, lines 98-103
            /\ SummaryResponds(503, <<>>)
            /\ summary_error' = Some("Exception")
            /\ UNCHANGED model_calls
       ELSE IF ~RequestIsBound
       THEN \* line 62 raises, lines 98-103
            /\ SummaryResponds(503, <<>>)
            /\ summary_error' = Some("NameError")
            /\ UNCHANGED model_calls
       ELSE \* lines 64-96, and lines 98-103 when generate_content raises
            LET prompt == prompt_template(body)
            IN  /\ model_calls' = Append(model_calls, prompt)
                /\ IF gemini.generate = "raises"
                   THEN /\ SummaryResponds(503, <<>>)
                        /\ summary_error' = Some("Exception")
                   ELSE /\ SummaryResponds(
                               200, [summary |-> GeneratedText(prompt)])
                        /\ UNCHANGED summary_error

NextSummary == \E body \in Bodies : generate_summary(body)

SpecSummary == InitSummary /\ [][NextSummary]_vars

-----------------------------------------------------------------------------
(* Properties of generate_summary *)

\* C21: when GEMINI_API_KEY is set and the generative service answers,
\* POST /summary returns 200 and the summary field is the text the model
\* generates from the posted key points; the status is 503 only when the
\* client or the model call fails, and 500 only when the key is missing.
C21_SummaryIsModelText ==
    summary_pc = "done" =>
        /\ (TruthyStr(GEMINI_API_KEY) /\ gemini.client = "ok"
                /\ gemini.generate = "answers")
            => /\ summary_status = 200
               /\ summary_body =
                      [summary |-> GeneratedText(prompt_template(input_data))]
        /\ summary_status = 503
            => (gemini.client = "raises" \/ gemini.generate = "raises")
        /\ summary_status = 500 => ~TruthyStr(GEMINI_API_KEY)

-----------------------------------------------------------------------------
(* get_playlist_videos, src/playlist-videos-mcp/main.py:41-114: GET          *)
(* /playlist/videos reads the title and the video URLs of a playlist through *)
(* the Playlist object of the scraping library.  The library is an input:    *)
(* every read of the object answers a value or raises one of the exceptions  *)
(* the handler tells apart.  The object caches what it has fetched, so a     *)
(* property that has answered once answers the same again.                   *)

\* the most videos of a playlist
MaxVideos == 2

\* an outcome of a read: a value, or an exception raised
Answers(v) == [value |-> v]

Raises(e) == [raises |-> e]

IsRaise(o) == "raises" \in DOMAIN o

\* the exception classes of lines 88-108; RegexMatchError is a PytubeError,
\* and all of them are Exceptions
PlaylistExceptions ==
    {"RegexMatchError", "KeyError", "PytubeError", "Exception"}

PlaylistVideoUrls == {"https://www.youtube.com/watch?v=A",
                      "https://www.youtube.com/watch?v=B"}

\* the playlists: Playlist(url), playlist.title (and owner) and
\* playlist.video_urls each answer or raise
Playlists ==
    [construct  : {Answers("playlist")} \cup {Raises("RegexMatchError")},
     title      : {Answers("title")}
                      \cup {Raises(e) : e \in PlaylistExceptions},
     video_urls : {Answers(s) : s \in SeqsUpTo(PlaylistVideoUrls, MaxVideos)}
                      \cup {Raises(e) : e \in PlaylistExceptions}]

\* an exception in flight, with the line that raised it
RaisedAt(e, line) == [type |-> e, line |-> line]

\* raise HTTPException(status_code=code, ...)
HTTPExceptionAt(code, line) ==
    [type |-> "HTTPException", line |-> line, status |-> code]

\* lines 66-75: the inner try block raises PytubeError at line 69 after
\* reading the title again; its except clause sees a KeyError only
EmptyOrInaccessible(pl) ==
    IF IsRaise(pl.title) /\ pl.title.raises = "KeyError"
    THEN <<RaisedAt("KeyError", 67), HTTPExceptionAt(404, 72)>>
    ELSE IF IsRaise(pl.title) THEN <<RaisedAt(pl.title.raises, 67)>>
    ELSE <<RaisedAt("PytubeError", 69)>>

\* lines 56-86: the exceptions raised in the try block, in order; none when
\* the block returns
TryBlock(pl) ==
    IF IsRaise(pl.construct) THEN <<RaisedAt(pl.construct.raises, 56)>>
    ELSE IF IsRaise(pl.title) THEN <<RaisedAt(pl.title.raises, 60)>>
    ELSE IF IsRaise(pl.video_urls)
    THEN <<RaisedAt(pl.video_urls.raises, 64)>>
    ELSE IF pl.video_urls.value = <<>> THEN EmptyOrInaccessible(pl)
    ELSE <<>>

\* lines 88-114: the first except clause that matches the exception
Handled(e) ==
    IF e.type = "RegexMatchError" THEN HTTPExceptionAt(400, 90)
    ELSE IF e.type = "KeyError" THEN HTTPExceptionAt(404, 97)
    ELSE IF e.type = "PytubeError" THEN HTTPExceptionAt(500, 104)
    ELSE HTTPExceptionAt(500, 111)

\* lines 77-86
PlaylistBody(pl) ==
    [playlist_title |-> pl.title.value,
     video_count    |-> Len(pl.video_urls.value),
     video_urls     |-> pl.video_urls.value]

\* lines 41-114: the whole handler
get_playlist_videos(pl) ==
    LET raised_in_try == TryBlock(pl)
    IN  /\ playlist_pc = "idle"
        /\ UNCHANGED <<search_vars, urls_vars, summary_vars, agent_vars>>
        /\ playlist' = pl
        /\ playlist_pc' = "done"
        /\ IF raised_in_try = <<>>
           THEN /\ playlist_status' = 200
                /\ playlist_body' = PlaylistBody(pl)
                /\ playlist_error' = <<>>
           ELSE LET answer == Handled(raised_in_try[Len(raised_in_try)])
                IN  /\ playlist_status' = answer.status
                    /\ playlist_body' = <<>>
                    /\ playlist_error' = Append(raised_in_try, answer)

NextPlaylist == \E pl \in Playlists : get_playlist_videos(pl)

SpecPlaylist == Init /\ [][NextPlaylist]_vars

-----------------------------------------------------------------------------
(* Properties of get_playlist_videos *)

\* the playlist is read without an exception and has no video URLs
YieldsNoUrls ==
    /\ ~IsRaise(playlist.construct)
    /\ ~IsRaise(playlist.title)
    /\ ~IsRaise(playlist.video_urls)
    /\ playlist.video_urls.value = <<>>

\* every HTTPException raised in the handler is the response
HTTPExceptionsReachCaller ==
    \A k \in DOMAIN playlist_error :
        playlist_error[k].type = "HTTPException"
            => /\ k = Len(playlist_error)
               /\ playlist_status = playlist_error[k].status

\* C22: a playlist that yields no video URLs is answered with 404, as a
\* private or inaccessible playlist is, and never with a 5xx status; and
\* every HTTPException raised inside the handler reaches the caller with the
\* status it was raised with.
C22_EmptyIsNotFound ==
    playlist_pc = "done" =>
        /\ YieldsNoUrls => playlist_status = 404
        /\ HTTPExceptionsReachCaller

-----------------------------------------------------------------------------
(* load_youbuddy_agent, src/YouBuddy/src/agent.py:131-181, with fetch_secret *)
(* (lines 49-71) and load_mcp_tools (lines 86-124).  The coroutine is        *)
(* followed from await to await: it starts and runs up to the first server   *)
(* (LoadAgent); for every server the toolset is built, entered and asked for *)
(* its tools (LoadTools), and after the last server the agent is built and   *)
(* returned.  The task that runs the coroutine may be cancelled while it     *)
(* waits at an await of load_mcp_tools (LoadToolsCancelled): the await then  *)
(* raises CancelledError, which is a BaseException and no Exception.         *)

\* lines 91-96: the servers, in the order of the dict
Servers == <<"get_channel_videos", "get_playlist_videos", "summarize_video",
             "combine_summaries">>

\* line 135: AsyncExitStack()
NewExitStack == [entered |-> <<>>, exited |-> <<>>, closed |-> FALSE]

\* line 105: the context of a toolset is entered and its exit is pushed
Entered(stack, name) == [stack EXCEPT !.entered = Append(@, name)]

Reverse(s) == [k \in DOMAIN s |-> s[Len(s) + 1 - k]]

\* line 179: aclose() exits the entered contexts, the last one first
Closed(stack) ==
    [stack EXCEPT !.exited = List(Reverse(stack.entered)), !.closed = TRUE]

\* lines 49-71: None without a resource name or when the client raises,
\* else the payload of the secret
fetch_secret(secret_resource_name, access) ==
    IF ~TruthyStr(secret_resource_name) THEN None
    ELSE IF IsRaise(access) THEN None
    ELSE Some(access.value)

\* GOOGLE_API_KEY_SECRET_RESOURCE_NAME (lines 43-45) and what
\* access_secret_version answers
SecretResourceNames == {None, Some("projects/p/secrets/s/versions/latest")}

SecretAccesses == {Answers("key"), Answers(""), Raises("Exception")}

\* what a server does at lines 103-107: MCPToolset(...) raises, entering the
\* context raises, load_tools raises, or the tools are loaded
ServerOutcomes == {"construct_raises", "enter_raises", "load_raises", "loaded"}

\* the tool a server offers
ToolOf(name) == [name |-> name, description |-> "d"]

\* lines 154-174: Agent(...) with the loaded tools
Agent(tools) == [name |-> "youbuddy_agent", tools |-> tools]

\* lines 135-151: the secret is fetched; without it ValueError is raised,
\* the stack is closed and RuntimeError is raised (lines 177-181)
LoadAgent(secret_resource_name, access) ==
    LET secret_value == fetch_secret(secret_resource_name, access)
    IN  /\ agent_pc = "idle"
        /\ UNCHANGED <<search_vars, urls_vars, summary_vars, playlist_vars>>
        /\ UNCHANGED <<tried, all_tools, agent_result>>
        /\ IF TruthyStr(secret_value)
           THEN /\ GOOGLE_API_KEY' = secret_value
                /\ exit_stack' = Some(NewExitStack)
                /\ server' = 1
                /\ agent_pc' = "tools"
                /\ UNCHANGED agent_raised
           ELSE /\ exit_stack' = Some(Closed(NewExitStack))
                /\ agent_raised' = <<"ValueError", "RuntimeError">>
                /\ agent_pc' = "raised"
                /\ UNCHANGED <<GOOGLE_API_KEY, server>>

\* lines 99-116 for one server, and after the last server lines 118-124 and
\* 154-181: the agent is built and returned with the open stack, or its
\* construction raises, the stack is closed and RuntimeError is raised
LoadTools(outcome, agent_built) ==
    LET name == Servers[server]
        stack == IF outcome \in {"load_raises", "loaded"}
                 THEN Entered(exit_stack[1], name)
                 ELSE exit_stack[1]
        tools == IF outcome = "loaded"
                 THEN Append(all_tools, ToolOf(name))
                 ELSE all_tools
    IN  /\ agent_pc = "tools"
        /\ UNCHANGED <<search_vars, urls_vars, summary_vars, playlist_vars>>
        /\ UNCHANGED GOOGLE_API_KEY
        /\ tried' = Append(tried, [name |-> name, outcome |-> outcome])
        /\ all_tools' = tools
        /\ IF server < Len(Servers)
           THEN /\ server' = server + 1
                /\ exit_stack' = Some(stack)
                /\ UNCHANGED <<agent_pc, agent_result, agent_raised>>
           ELSE /\ UNCHANGED server
                /\ IF agent_built
                   THEN /\ exit_stack' = Some(stack)
                        /\ agent_result' =
                               Some([agent |-> Agent(tools),
                                     exit_stack |-> stack])
                        /\ agent_pc' = "returned"
                        /\ UNCHANGED agent_raised
                   ELSE /\ exit_stack' = Some(Closed(stack))
                        /\ agent_raised' = <<"Exception", "RuntimeError">>
                        /\ agent_pc' = "raised"
                        /\ UNCHANGED agent_result

\* the awaits of lines 105 and 107 raise CancelledError: neither line 113
\* nor line 177 catches it, and the coroutine ends with it
LoadToolsCancelled(at) ==
    LET name == Servers[server]
    IN  /\ agent_pc = "tools"
        /\ UNCHANGED <<search_vars, urls_vars, summary_vars, playlist_vars>>
        /\ UNCHANGED <<GOOGLE_API_KEY, server, all_tools, agent_result>>
        /\ tried' = Append(tried, [name |-> name, outcome |-> "cancelled"])
        /\ exit_stack' = IF at = "load_tools"
                         THEN Some(Entered(exit_stack[1], name))
                         ELSE exit_stack
        /\ agent_raised' = <<"CancelledError">>
        /\ agent_pc' = "raised"

NextAgent ==
    \/ \E n \in SecretResourceNames, access \in SecretAccesses :
           LoadAgent(n, access)
    \/ \E outcome \in ServerOutcomes, agent_built \in BOOLEAN :
           LoadTools(outcome, agent_built)
    \/ \E at \in {"enter_async_context", "load_tools"} : LoadToolsCancelled(at)

SpecAgent == Init /\ [][NextAgent]_vars

-----------------------------------------------------------------------------
(* Properties of load_youbuddy_agent *)

\* the contexts entered and not exited
OpenContexts ==
    IF exit_stack = None THEN {}
    ELSE {exit_stack[1].entered[k] : k \in DOMAIN exit_stack[1].entered}
            \ {exit_stack[1].exited[k] : k \in DOMAIN exit_stack[1].exited}

\* the function raised after closing the stack, and raised RuntimeError
ClosedThenRuntimeError ==
    /\ exit_stack # None
    /\ exit_stack[1].closed
    /\ OpenContexts = {}
    /\ agent_raised[Len(agent_raised)] = "RuntimeError"

\* the function returned the agent with the stack, open, and every server
\* was tried
ReturnedOpen ==
    /\ agent_result # None
    /\ agent_result[1].exit_stack = exit_stack[1]
    /\ ~exit_stack[1].closed
    /\ exit_stack[1].exited = <<>>
    /\ [k \in DOMAIN tried |-> tried[k].name] = Servers

\* an Exception raised in load_youbuddy_agent (the secret not obtained, the
\* construction of the agent failing) closes the stack before RuntimeError
\* is raised
CleanupOnException ==
    (agent_pc = "raised" /\ agent_raised[1] \in {"ValueError", "Exception"})
        => ClosedThenRuntimeError

\* C23: whenever load_youbuddy_agent ends by raising, the exit stack has been
\* closed first, every toolset context entered is exited and the error is
\* RuntimeError; whenever it returns, the stack is returned unclosed with the
\* agent, and a server that fails does not stop the following ones from being
\* tried.
C23_NoLeakedConnections ==
    /\ agent_pc = "raised" => ClosedThenRuntimeError
    /\ agent_pc = "returned" => ReturnedOpen

====
